---- MODULE Spec2Model ----
(***************************************************************************)
(* The Scalyr query tool (src/tools/dataset_scalyr_query.py) as a state    *)
(* machine: one call of dataset_scalyr_query walks through the credential  *)
(* check, the assembly of the request body, the single urlopen, the        *)
(* success path and the three except clauses.  Python values are tagged    *)
(* records, Python str is a TLA+ string, bytes is a tuple of byte tokens.  *)
(***************************************************************************)
EXTENDS Integers, Sequences, FiniteSets, TLC

(***************************************************************************)
(* Python values                                                           *)
(***************************************************************************)
None == [t |-> "none"]
Unspecified == [t |-> "unspecified"]
PyStr(s) == [t |-> "str", s |-> s]
PyInt(n) == [t |-> "int", n |-> n]
PyBool(b) == [t |-> "bool", b |-> b]
PyList(items) == [t |-> "list", items |-> items]
PyDict(items) == [t |-> "dict", items |-> items]

IsDict(v) == v.t = "dict"
IsStr(v) == v.t = "str"

\* Python truth value of v, as tested by `if not token` and
\* `if continuation_token`.
Truthy(v) ==
    CASE v.t = "none" -> FALSE
      [] v.t = "str" -> v.s # ""
      [] v.t = "int" -> v.n # 0
      [] v.t = "bool" -> v.b
      [] v.t = "list" -> Len(v.items) > 0
      [] v.t = "dict" -> Len(v.items) > 0
      [] OTHER -> TRUE

\* Keys of a dict value, in insertion order.
Keys(d) == [i \in 1..Len(d.items) |-> d.items[i][1]]
KeySet(d) == {d.items[i][1] : i \in 1..Len(d.items)}
HasKey(d, k) == k \in KeySet(d)
\* d[k]
Get(d, k) == d.items[CHOOSE i \in 1..Len(d.items) : d.items[i][1] = k][2]
\* d[k] = v: an existing key keeps its place, a new key goes last.
DictSet(d, k, v) ==
    IF HasKey(d, k)
    THEN PyDict([i \in 1..Len(d.items) |->
                 IF d.items[i][1] = k THEN <<k, v>> ELSE d.items[i]])
    ELSE PyDict(Append(d.items, <<k, v>>))

(***************************************************************************)
(* str.encode("utf-8") and bytes.decode("utf-8").  A byte below 0x80 is    *)
(* the one-character string of its ASCII character; 0xFF, which no UTF-8   *)
(* text contains, is the token "xFF".  The strings of the model are ASCII. *)
(***************************************************************************)
InvalidByte == "xFF"

\* The concatenation of the strings parts[lo..hi], by halves.
RECURSIVE Concat(_, _, _)
Concat(parts, lo, hi) ==
    IF lo > hi THEN ""
    ELSE IF lo = hi THEN parts[lo]
    ELSE LET mid == (lo + hi) \div 2 IN
         Concat(parts, lo, mid) \o Concat(parts, mid + 1, hi)

Utf8Encode(s) == [i \in 1..Len(s) |-> SubSeq(s, i, i)]

\* Index of the first byte that is not valid UTF-8, 0 when there is none.
FirstInvalid(bs) ==
    LET bad == {i \in 1..Len(bs) : bs[i] = InvalidByte} IN
    IF bad = {} THEN 0 ELSE CHOOSE i \in bad : \A j \in bad : i <= j

Utf8Text(bs) == Concat(bs, 1, Len(bs))

\* bytes.decode("utf-8"): the text, or the UnicodeDecodeError message.
Utf8Decode(bs) ==
    LET bad == FirstInvalid(bs) IN
    IF bad = 0
    THEN [ok |-> TRUE, text |-> Utf8Text(bs)]
    ELSE [ok |-> FALSE,
          msg |-> "'utf-8' codec can't decode byte 0xff in position "
                  \o ToString(bad - 1) \o ": invalid start byte"]

(***************************************************************************)
(* json.dumps with its defaults: separators ", " and ": ", keys in         *)
(* insertion order, quote and backslash escaped.                           *)
(***************************************************************************)
Quote == "\""
Backslash == "\\"

EscapeChar(c) == IF c = Quote \/ c = Backslash THEN Backslash \o c ELSE c
EscapeStr(s) ==
    Concat([i \in 1..Len(s) |-> EscapeChar(SubSeq(s, i, i))], 1, Len(s))

RECURSIVE JsonDumps(_)
RECURSIVE DumpsItems(_, _)
RECURSIVE DumpsMembers(_, _)
DumpsItems(items, i) ==
    IF i > Len(items) THEN ""
    ELSE (IF i > 1 THEN ", " ELSE "") \o JsonDumps(items[i])
         \o DumpsItems(items, i + 1)
DumpsMembers(items, i) ==
    IF i > Len(items) THEN ""
    ELSE (IF i > 1 THEN ", " ELSE "")
         \o Quote \o EscapeStr(items[i][1]) \o Quote \o ": "
         \o JsonDumps(items[i][2])
         \o DumpsMembers(items, i + 1)
JsonDumps(v) ==
    CASE v.t = "none" -> "null"
      [] v.t = "bool" -> IF v.b THEN "true" ELSE "false"
      [] v.t = "int" -> ToString(v.n)
      [] v.t = "str" -> Quote \o EscapeStr(v.s) \o Quote
      [] v.t = "list" -> "[" \o DumpsItems(v.items, 1) \o "]"
      [] v.t = "dict" -> "{" \o DumpsMembers(v.items, 1) \o "}"

(***************************************************************************)
(* json.loads on a str: the scanner of json.decoder and json.scanner.      *)
(* Positions are 0-based as in Python.  Numbers are the integers (an       *)
(* optional minus sign, then 0 or a digit string without a leading 0);     *)
(* the escapes are those of quote, backslash, slash, n, r and t.           *)
(***************************************************************************)
\* s[i:i+1]
Ch(s, i) == IF i >= 0 /\ i < Len(s) THEN SubSeq(s, i + 1, i + 1) ELSE ""
\* s[i:j]
Slice(s, i, j) == SubSeq(s, i + 1, IF j > Len(s) THEN Len(s) ELSE j)

Whitespace == {" ", "\t", "\n", "\r"}
Digits == {"0", "1", "2", "3", "4", "5", "6", "7", "8", "9"}
DigitValue(c) == CHOOSE d \in 0..9 : ToString(d) = c

RECURSIVE SkipWs(_, _)
SkipWs(s, i) == IF Ch(s, i) \in Whitespace THEN SkipWs(s, i + 1) ELSE i

RECURSIVE DigitsEnd(_, _)
DigitsEnd(s, i) == IF Ch(s, i) \in Digits THEN DigitsEnd(s, i + 1) ELSE i

RECURSIVE NatOf(_)
NatOf(ds) ==
    IF ds = "" THEN 0
    ELSE NatOf(SubSeq(ds, 1, Len(ds) - 1)) * 10 + DigitValue(Ch(ds, Len(ds) - 1))

Parsed(v, pos) == [ok |-> TRUE, val |-> v, pos |-> pos]
ParseError(msg, pos) == [ok |-> FALSE, msg |-> msg, pos |-> pos]

\* The match of NUMBER_RE at i: the index after it, or i when there is none.
NumberEnd(s, i) ==
    LET j == IF Ch(s, i) = "-" THEN i + 1 ELSE i IN
    IF Ch(s, j) = "0" THEN j + 1
    ELSE IF Ch(s, j) \in Digits THEN DigitsEnd(s, j)
    ELSE i

\* scanstring(s, i): i is the index after the opening quote; acc is the text
\* read so far.
RECURSIVE ScanString(_, _, _, _)
ScanString(s, i, begin, acc) ==
    LET c == Ch(s, i) IN
    IF c = "" THEN ParseError("Unterminated string starting at", begin)
    ELSE IF c = Quote THEN Parsed(acc, i + 1)
    ELSE IF c \in {"\n", "\r", "\t"}
         THEN ParseError("Invalid control character at", i)
    ELSE IF c = Backslash
         THEN LET esc == Ch(s, i + 1) IN
              IF esc = "" THEN ParseError("Unterminated string starting at", begin)
              ELSE IF esc \in {Quote, Backslash, "/"}
                   THEN ScanString(s, i + 2, begin, acc \o esc)
              ELSE IF esc = "n" THEN ScanString(s, i + 2, begin, acc \o "\n")
              ELSE IF esc = "r" THEN ScanString(s, i + 2, begin, acc \o "\r")
              ELSE IF esc = "t" THEN ScanString(s, i + 2, begin, acc \o "\t")
              ELSE ParseError("Invalid \\escape", i)
    ELSE ScanString(s, i + 1, begin, acc \o c)

RECURSIVE ScanOnce(_, _)
RECURSIVE ScanArray(_, _, _)
RECURSIVE ScanObject(_, _, _)

\* JSONArray after a value has been asked for at i; items are those read.
ScanArray(s, i, items) ==
    LET r == ScanOnce(s, i) IN
    IF ~r.ok THEN r
    ELSE LET e == SkipWs(s, r.pos)
             got == Append(items, r.val) IN
         IF Ch(s, e) = "]" THEN Parsed(PyList(got), e + 1)
         ELSE IF Ch(s, e) # "," THEN ParseError("Expecting ',' delimiter", e)
         ELSE ScanArray(s, SkipWs(s, e + 1), got)

\* JSONObject at the opening quote of a key; d is the dict read so far.
ScanObject(s, i, d) ==
    IF Ch(s, i) # Quote
    THEN ParseError("Expecting property name enclosed in double quotes", i)
    ELSE
    LET k == ScanString(s, i + 1, i, "") IN
    IF ~k.ok THEN k
    ELSE LET c == SkipWs(s, k.pos) IN
         IF Ch(s, c) # ":" THEN ParseError("Expecting ':' delimiter", c)
         ELSE LET r == ScanOnce(s, SkipWs(s, c + 1)) IN
              IF ~r.ok THEN r
              ELSE LET e == SkipWs(s, r.pos)
                       got == DictSet(d, k.val, r.val) IN
                   IF Ch(s, e) = "}" THEN Parsed(got, e + 1)
                   ELSE IF Ch(s, e) # ","
                        THEN ParseError("Expecting ',' delimiter", e)
                   ELSE ScanObject(s, SkipWs(s, e + 1), got)

\* scan_once(s, i)
ScanOnce(s, i) ==
    LET c == Ch(s, i) IN
    IF c = Quote
    THEN LET r == ScanString(s, i + 1, i, "") IN
         IF r.ok THEN Parsed(PyStr(r.val), r.pos) ELSE r
    ELSE IF c = "{"
    THEN LET j == SkipWs(s, i + 1) IN
         IF Ch(s, j) = "}" THEN Parsed(PyDict(<<>>), j + 1)
         ELSE ScanObject(s, j, PyDict(<<>>))
    ELSE IF c = "["
    THEN LET j == SkipWs(s, i + 1) IN
         IF Ch(s, j) = "]" THEN Parsed(PyList(<<>>), j + 1)
         ELSE ScanArray(s, j, <<>>)
    ELSE IF c = "n" /\ Slice(s, i, i + 4) = "null" THEN Parsed(None, i + 4)
    ELSE IF c = "t" /\ Slice(s, i, i + 4) = "true" THEN Parsed(PyBool(TRUE), i + 4)
    ELSE IF c = "f" /\ Slice(s, i, i + 5) = "false" THEN Parsed(PyBool(FALSE), i + 5)
    ELSE LET e == NumberEnd(s, i) IN
         IF e > i
         THEN Parsed(PyInt(IF Ch(s, i) = "-" THEN 0 - NatOf(Slice(s, i + 1, e))
                                              ELSE NatOf(Slice(s, i, e))), e)
         ELSE ParseError("Expecting value", i)

\* The indexes of the "\n" in s[0:pos].
Newlines(s, pos) == {i \in 0..(pos - 1) : Ch(s, i) = "\n"}
CountNewlines(s, pos) == Cardinality(Newlines(s, pos))
\* The index of the last of them, -1 when there is none.
LastNewline(s, pos) ==
    IF Newlines(s, pos) = {} THEN -1
    ELSE CHOOSE i \in Newlines(s, pos) : \A j \in Newlines(s, pos) : j <= i

\* str(JSONDecodeError(msg, doc, pos))
JSONDecodeErrorStr(msg, doc, pos) ==
    msg \o ": line " \o ToString(CountNewlines(doc, pos) + 1)
        \o " column " \o ToString(pos - LastNewline(doc, pos))
        \o " (char " \o ToString(pos) \o ")"

\* json.loads(s): [ok |-> TRUE, val] or [ok |-> FALSE, msg], msg the text of
\* the JSONDecodeError.
JsonLoads(s) ==
    LET r == ScanOnce(s, SkipWs(s, 0)) IN
    IF ~r.ok THEN [ok |-> FALSE, msg |-> JSONDecodeErrorStr(r.msg, s, r.pos)]
    ELSE LET e == SkipWs(s, r.pos) IN
         IF e # Len(s)
         THEN [ok |-> FALSE, msg |-> JSONDecodeErrorStr("Extra data", s, e)]
         ELSE [ok |-> TRUE, val |-> r.val]

(***************************************************************************)
(* Exceptions: the classes the call can meet, with their base classes.     *)
(***************************************************************************)
Mro(cls) ==
    CASE cls = "HTTPError" -> {"HTTPError", "URLError", "OSError", "Exception"}
      [] cls = "URLError" -> {"URLError", "OSError", "Exception"}
      [] cls = "ConnectionResetError" -> {"ConnectionResetError", "OSError", "Exception"}
      [] cls = "TimeoutError" -> {"TimeoutError", "OSError", "Exception"}
      [] cls = "UnicodeDecodeError" -> {"UnicodeDecodeError", "ValueError", "Exception"}
      [] cls = "JSONDecodeError" -> {"JSONDecodeError", "ValueError", "Exception"}
      [] OTHER -> {cls, "Exception"}

NoFp == [present |-> FALSE]
\* The body of an HTTP error answer: data are its bytes, readErr is the
\* exception read() raises ("" when it returns the bytes).
Fp(data, readErr) == [present |-> TRUE, data |-> data, readErr |-> readErr]

HTTPError(code, msg, fp) == [cls |-> "HTTPError", code |-> code, msg |-> msg, fp |-> fp]
URLError(reason) == [cls |-> "URLError", reason |-> reason]
Exception(cls, msg) == [cls |-> cls, msg |-> msg]

\* str(e)
ExcStr(e) ==
    CASE e.cls = "HTTPError" -> "HTTP Error " \o ToString(e.code) \o ": " \o e.msg
      [] e.cls = "URLError" -> "<urlopen error " \o e.reason \o ">"
      [] OTHER -> e.msg

\* e.reason
Reason(e) == IF e.cls = "HTTPError" THEN e.msg ELSE e.reason

(***************************************************************************)
(* The results of a call                                                   *)
(***************************************************************************)
NoOutcome == [kind |-> "none"]
Return(v) == [kind |-> "return", value |-> v]
Raise(e) == [kind |-> "raise", exc |-> e]

(***************************************************************************)
(* dataset_scalyr_query, piece by piece                                    *)
(***************************************************************************)
TokenVar == "SCALYR_API_TOKEN"
DefaultStartTime == "4h"
DefaultEndTime == "0h"
DefaultMaxCount == 100
DefaultColumns == ""

\* os.environ.get(name): environ is a set of <<name, value>> pairs.
EnvironGet(env, name) ==
    IF \E p \in env : p[1] = name
    THEN PyStr((CHOOSE p \in env : p[1] = name)[2])
    ELSE None

\* A binding that clamps max_count to the documented range 1..5000.
BindClamped(kw) ==
    LET m == IF kw.max_count = Unspecified THEN PyInt(100) ELSE kw.max_count IN
    [filter |-> kw.filter,
     start_time |-> IF kw.start_time = Unspecified THEN PyStr("4h") ELSE kw.start_time,
     end_time |-> IF kw.end_time = Unspecified THEN PyStr("0h") ELSE kw.end_time,
     max_count |-> IF m.n < 1 THEN PyInt(1) ELSE IF m.n > 5000 THEN PyInt(5000) ELSE m,
     columns |-> IF kw.columns = Unspecified THEN PyStr("") ELSE kw.columns,
     continuation_token |->
         IF kw.continuation_token = Unspecified THEN None ELSE kw.continuation_token]

\* The parameters of the call as the signature binds them: a keyword the
\* caller leaves out takes its default.
Default(v, d) == IF v = Unspecified THEN d ELSE v
Bind(kw) ==
    [filter |-> kw.filter,
     start_time |-> Default(kw.start_time, PyStr(DefaultStartTime)),
     end_time |-> Default(kw.end_time, PyStr(DefaultEndTime)),
     max_count |-> Default(kw.max_count, PyInt(DefaultMaxCount)),
     columns |-> Default(kw.columns, PyStr(DefaultColumns)),
     continuation_token |-> Default(kw.continuation_token, None)]

\* A test for the empty string alone, which lets an unset variable through.
TokenMissingEmptyOnly(tok) == tok = PyStr("")

\* `if not token`
TokenMissing(tok) == ~Truthy(tok)

MissingTokenResult ==
    PyDict(<< <<"error", PyStr("SCALYR_API_TOKEN environment variable not set")>> >>)

\* A body that never carries the continuation token.
RequestBodyNoContinuation(tok, a) ==
    PyDict(<< <<"token", tok>>,
              <<"queryType", PyStr("log")>>,
              <<"filter", a.filter>>,
              <<"startTime", a.start_time>>,
              <<"endTime", a.end_time>>,
              <<"maxCount", a.max_count>>,
              <<"columns", a.columns>> >>)

\* The request body, with the continuation token added when it is truthy.
RequestBody(tok, a) ==
    LET base == PyDict(<< <<"token", tok>>,
                          <<"queryType", PyStr("log")>>,
                          <<"filter", a.filter>>,
                          <<"startTime", a.start_time>>,
                          <<"endTime", a.end_time>>,
                          <<"maxCount", a.max_count>>,
                          <<"columns", a.columns>> >>) IN
    IF Truthy(a.continuation_token)
    THEN DictSet(base, "continuationToken", a.continuation_token)
    ELSE base

Url == "https://app.scalyr.com/api/query"
Headers == {<<"Content-Type", "application/json">>}
MethodGet == "GET"
Method == "POST"

\* urllib.request.Request(url, data=json.dumps(body).encode("utf-8"), ...)
MakeRequest(b) ==
    [url |-> Url, data |-> Utf8Encode(JsonDumps(b)), headers |-> Headers,
     method |-> Method]

\* A success path that returns the decoded text without parsing it.
ReadResponseUnparsed(resp) ==
    IF resp.readErr # ""
    THEN [ok |-> FALSE, exc |-> Exception("ConnectionResetError", resp.readErr)]
    ELSE LET d == Utf8Decode(resp.data) IN
         IF ~d.ok
         THEN [ok |-> FALSE, exc |-> Exception("UnicodeDecodeError", d.msg)]
         ELSE IF ~JsonLoads(d.text).ok
              THEN [ok |-> FALSE,
                    exc |-> Exception("JSONDecodeError", JsonLoads(d.text).msg)]
              ELSE [ok |-> TRUE, val |-> PyStr(d.text)]

\* The success path inside `with urlopen(req) as response`: read, decode,
\* parse.  [ok |-> TRUE, val] is the value returned, [ok |-> FALSE, exc] the
\* exception raised in the try block.
ReadResponse(resp) ==
    IF resp.readErr # ""
    THEN [ok |-> FALSE, exc |-> Exception("ConnectionResetError", resp.readErr)]
    ELSE LET d == Utf8Decode(resp.data) IN
         IF ~d.ok
         THEN [ok |-> FALSE, exc |-> Exception("UnicodeDecodeError", d.msg)]
         ELSE LET j == JsonLoads(d.text) IN
              IF ~j.ok
              THEN [ok |-> FALSE, exc |-> Exception("JSONDecodeError", j.msg)]
              ELSE [ok |-> TRUE, val |-> j.val]

\* The except clauses with `except Exception` written first.
HandlerExceptionFirst(e) ==
    IF "Exception" \in Mro(e.cls) THEN "Exception"
    ELSE IF "HTTPError" \in Mro(e.cls) THEN "HTTPError"
    ELSE IF "URLError" \in Mro(e.cls) THEN "URLError"
    ELSE "none"

\* The except clause that takes e: the first, in the order written, that
\* names a class of e.
Handler(e) ==
    IF "HTTPError" \in Mro(e.cls) THEN "HTTPError"
    ELSE IF "URLError" \in Mro(e.cls) THEN "URLError"
    ELSE IF "Exception" \in Mro(e.cls) THEN "Exception"
    ELSE "none"

\* details: the error body parsed, or as it is when json.loads raises.
ErrorDetails(error_body) ==
    LET j == JsonLoads(error_body) IN
    IF j.ok THEN j.val ELSE PyStr(error_body)

HTTPErrorResult(e, error_details) ==
    PyDict(<< <<"error", PyStr("HTTP " \o ToString(e.code) \o ": " \o Reason(e))>>,
              <<"details", error_details>> >>)

\* The body of `except urllib.error.HTTPError as e`: what it returns, or the
\* exception that leaves it (no clause of the same try statement catches an
\* exception raised inside a handler).
HandleHTTPError(e) ==
    IF ~e.fp.present
    THEN Return(HTTPErrorResult(e, ErrorDetails(ExcStr(e))))
    ELSE IF e.fp.readErr # ""
    THEN Raise(Exception("ConnectionResetError", e.fp.readErr))
    ELSE LET d == Utf8Decode(e.fp.data) IN
         IF ~d.ok THEN Raise(Exception("UnicodeDecodeError", d.msg))
         ELSE Return(HTTPErrorResult(e, ErrorDetails(d.text)))

URLErrorResult(e) ==
    PyDict(<< <<"error", PyStr("URL Error: " \o Reason(e))>> >>)

\* A result that drops the message of the exception.
UnexpectedErrorResultNoMessage(e) ==
    PyDict(<< <<"error", PyStr("Unexpected error")>> >>)

UnexpectedErrorResult(e) ==
    PyDict(<< <<"error", PyStr("Unexpected error: " \o ExcStr(e))>> >>)

(***************************************************************************)
(* What the caller and the network can do                                  *)
(***************************************************************************)
Environs == { {}, {<<TokenVar, "">>}, {<<TokenVar, "test-token-123">>} }

Filters == {"error", "msg = \"a\\b\""}
StartTimes == {"1700000000"}
EndTimes == {"1h"}
MaxCounts == {0, 5001}
ColumnsValues == {"timestamp,message"}
ContinuationTokens == {"", "abc123"}

Kwargs ==
    [filter : {PyStr(f) : f \in Filters},
     start_time : {Unspecified} \cup {PyStr(x) : x \in StartTimes},
     end_time : {Unspecified} \cup {PyStr(x) : x \in EndTimes},
     max_count : {Unspecified} \cup {PyInt(n) : n \in MaxCounts},
     columns : {Unspecified} \cup {PyStr(x) : x \in ColumnsValues},
     continuation_token :
         {Unspecified, None} \cup {PyStr(x) : x \in ContinuationTokens}]

\* The most matches an answer of the model carries.
MaxMatches == 2

\* An answer of the service with n matches, as the service serialises it.
MatchesText(n) ==
    JsonDumps(PyDict(<< <<"status", PyStr("success")>>,
                        <<"matches",
                          PyList([i \in 1..n |->
                                    PyDict(<< <<"message", PyStr("m")>>,
                                              <<"timestamp", PyInt(i)>> >>)])>>,
                        <<"continuationToken", PyStr("abc123")>> >>))

OkTexts ==
    {MatchesText(n) : n \in 0..MaxMatches}
    \cup
    {"{\"error\": \"x\", \"details\": 1}",
     "{}",
     "[1, 2, 3]",
     "\"text\"",
     "42",
     "null",
     "<html>Bad Gateway</html>",
     "",
     "{\"status\": \"success\""}
ErrorTexts ==
    {"{\"message\": \"Invalid query\", \"code\": \"BAD_REQUEST\"}",
     "Non-JSON error response",
     "\"quoted\"",
     ""}
UndecodableBodies == {<<"{", InvalidByte, "}">>}
ReadErrors == {"[Errno 104] Connection reset by peer"}
HTTPStatuses == {<<400, "Bad Request">>, <<500, "Internal Server Error">>}
URLReasons == {"Network unreachable", "[Errno 111] Connection refused"}
OtherExceptions ==
    {Exception("Exception", "Unexpected error occurred"),
     Exception("TimeoutError", "timed out")}

Response(data, readErr) == [status |-> 200, data |-> data, readErr |-> readErr]

Responses ==
    {Response(Utf8Encode(x), "") : x \in OkTexts}
    \cup {Response(b, "") : b \in UndecodableBodies}
    \cup {Response(<<>>, r) : r \in ReadErrors}

ErrorFps ==
    {NoFp}
    \cup {Fp(Utf8Encode(x), "") : x \in ErrorTexts}
    \cup {Fp(b, "") : b \in UndecodableBodies}
    \cup {Fp(<<>>, r) : r \in ReadErrors}

\* What urlopen(req) does: an answer to read, or an exception.
NetOutcomes ==
    {[kind |-> "response", response |-> r] : r \in Responses}
    \cup {[kind |-> "raise", exc |-> HTTPError(st[1], st[2], fp)] :
            st \in HTTPStatuses, fp \in ErrorFps}
    \cup {[kind |-> "raise", exc |-> URLError(r)] : r \in URLReasons}
    \cup {[kind |-> "raise", exc |-> e] : e \in OtherExceptions}

NoNet == [kind |-> "none"]
NoExc == [cls |-> "none"]

(***************************************************************************)
(* The state machine                                                       *)
(***************************************************************************)
VARIABLES
    environ,  \* os.environ
    pc,       \* where the call is
    kwargs,   \* the keywords the caller gave
    args,     \* the parameters as bound
    token,    \* the local token
    body,     \* the local body
    sent,     \* the requests handed to urlopen during the call
    net,      \* what urlopen did
    exc,      \* the exception the try statement is handling
    outcome   \* how the call ended

vars == <<environ, pc, kwargs, args, token, body, sent, net, exc, outcome>>

NoKwargs == [filter |-> Unspecified, start_time |-> Unspecified,
             end_time |-> Unspecified, max_count |-> Unspecified,
             columns |-> Unspecified, continuation_token |-> Unspecified]

Fresh ==
    /\ token' = None
    /\ body' = None
    /\ sent' = <<>>
    /\ net' = NoNet
    /\ exc' = NoExc
    /\ outcome' = NoOutcome

Init ==
    /\ environ \in Environs
    /\ pc = "idle"
    /\ kwargs = NoKwargs
    /\ args = NoKwargs
    /\ token = None
    /\ body = None
    /\ sent = <<>>
    /\ net = NoNet
    /\ exc = NoExc
    /\ outcome = NoOutcome

\* The process environment changes between two calls.
SetEnv ==
    /\ pc = "idle"
    /\ \E e \in Environs \ {environ} : environ' = e
    /\ UNCHANGED <<pc, kwargs, args, token, body, sent, net, exc, outcome>>

\* The host calls the tool.
Call ==
    /\ pc = "idle"
    /\ \E kw \in Kwargs :
         /\ kwargs' = kw
         /\ args' = Bind(kw)
    /\ pc' = "get_token"
    /\ Fresh
    /\ UNCHANGED environ

\* Lines 49-53.
GetToken ==
    /\ pc = "get_token"
    /\ LET tok == EnvironGet(environ, TokenVar) IN
       /\ token' = tok
       /\ IF TokenMissing(tok)
          THEN /\ outcome' = Return(MissingTokenResult)
               /\ pc' = "done"
          ELSE /\ outcome' = outcome
               /\ pc' = "build"
    /\ UNCHANGED <<environ, kwargs, args, body, sent, net, exc>>

\* Lines 56-68.
BuildBody ==
    /\ pc = "build"
    /\ body' = RequestBody(token, args)
    /\ pc' = "send"
    /\ UNCHANGED <<environ, kwargs, args, token, sent, net, exc, outcome>>

\* Lines 77-80: the one urlopen.
Send ==
    /\ pc = "send"
    /\ sent' = Append(sent, MakeRequest(body))
    /\ \E o \in NetOutcomes :
         /\ net' = o
         /\ IF o.kind = "response"
            THEN /\ pc' = "read"
                 /\ exc' = exc
            ELSE /\ pc' = "except"
                 /\ exc' = o.exc
    /\ UNCHANGED <<environ, kwargs, args, token, body, outcome>>

\* Lines 81-82.
Read ==
    /\ pc = "read"
    /\ LET r == ReadResponse(net.response) IN
       IF r.ok
       THEN /\ outcome' = Return(r.val)
            /\ pc' = "done"
            /\ exc' = exc
       ELSE /\ exc' = r.exc
            /\ pc' = "except"
            /\ outcome' = outcome
    /\ UNCHANGED <<environ, kwargs, args, token, body, sent, net>>

\* Lines 84-93.
ExceptHTTPError ==
    /\ pc = "except"
    /\ Handler(exc) = "HTTPError"
    /\ outcome' = HandleHTTPError(exc)
    /\ pc' = "done"
    /\ UNCHANGED <<environ, kwargs, args, token, body, sent, net, exc>>

\* Lines 94-97.
ExceptURLError ==
    /\ pc = "except"
    /\ Handler(exc) = "URLError"
    /\ outcome' = Return(URLErrorResult(exc))
    /\ pc' = "done"
    /\ UNCHANGED <<environ, kwargs, args, token, body, sent, net, exc>>

\* Lines 98-101.
ExceptException ==
    /\ pc = "except"
    /\ Handler(exc) = "Exception"
    /\ outcome' = Return(UnexpectedErrorResult(exc))
    /\ pc' = "done"
    /\ UNCHANGED <<environ, kwargs, args, token, body, sent, net, exc>>

\* The host has the result (or the exception); the frame of the call is gone.
Finish ==
    /\ pc = "done"
    /\ pc' = "idle"
    /\ kwargs' = NoKwargs
    /\ args' = NoKwargs
    /\ Fresh
    /\ UNCHANGED environ

Next ==
    \/ SetEnv
    \/ Call
    \/ GetToken
    \/ BuildBody
    \/ Send
    \/ Read
    \/ ExceptHTTPError
    \/ ExceptURLError
    \/ ExceptException
    \/ Finish

Spec == Init /\ [][Next]_vars

(***************************************************************************)
(* What the claims speak of                                                *)
(***************************************************************************)
\* s[i:i+len(sub)] = sub for some i
Contains(s, sub) ==
    \E i \in 0..(Len(s) - Len(sub)) : Slice(s, i, i + Len(sub)) = sub

CredentialAbsent == ~\E p \in environ : p[1] = TokenVar
CredentialConfigured == \E p \in environ : p[1] = TokenVar /\ p[2] # ""
Credential == (CHOOSE p \in environ : p[1] = TokenVar)[2]

\* The body of the request sent, as the service reads it.
SentBody == JsonLoads(Utf8Decode(sent[1].data).text).val

\* The call ended on an answer whose body was read, decoded and parsed.
Succeeded ==
    /\ pc = "done"
    /\ net.kind = "response"
    /\ net.response.readErr = ""
    /\ Utf8Decode(net.response.data).ok
    /\ JsonLoads(Utf8Decode(net.response.data).text).ok

AnsweredHTTPError == pc = "done" /\ net.kind = "raise" /\ net.exc.cls = "HTTPError"
TransportFailed == pc = "done" /\ net.kind = "raise" /\ net.exc.cls = "URLError"
\* A failure that is neither an HTTP error answer nor a transport error.
FailedOtherwise ==
    /\ pc = "done"
    /\ \/ net.kind = "raise" /\ net.exc.cls \notin {"HTTPError", "URLError"}
       \/ net.kind = "response" /\ ~Succeeded

ErrorOnly(msg) == Return(PyDict(<< <<"error", PyStr(msg)>> >>))

(***************************************************************************)
(* The claims                                                              *)
(***************************************************************************)
\* C1: every call ends by returning, whatever the network does: no exception
\* leaves the call, a failure while the HTTPError handler reads and decodes
\* the error body included, and what an error path returns is a mapping
\* (that the value of a successful call is a mapping is C10).
C1_AlwaysReturnsMapping ==
    pc = "done" =>
        /\ outcome.kind = "return"
        /\ ~Succeeded => IsDict(outcome.value)

\* C2: with SCALYR_API_TOKEN absent from the environment, for any arguments,
\* no request is sent during the call and the call returns a mapping whose
\* `error` text names SCALYR_API_TOKEN.
C2_MissingCredential ==
    CredentialAbsent =>
        /\ sent = <<>>
        /\ pc \notin {"build", "send", "read", "except"}
        /\ pc = "done" =>
             /\ outcome.kind = "return"
             /\ IsDict(outcome.value)
             /\ HasKey(outcome.value, "error")
             /\ IsStr(Get(outcome.value, "error"))
             /\ Contains(Get(outcome.value, "error").s, "SCALYR_API_TOKEN")
C2_Witness ==
    /\ pc = "done"
    /\ CredentialAbsent
    /\ kwargs.continuation_token = PyStr("abc123")
    /\ kwargs.max_count = PyInt(5001)

\* C3: after a 2xx answer with a JSON body the value returned is the parsed
\* body and nothing else: serialised again it is the text of the body, also
\* when the body has the keys error, details or continuationToken.
C3_SuccessIsParsedBody ==
    Succeeded =>
        LET text == Utf8Decode(net.response.data).text IN
        /\ outcome = Return(JsonLoads(text).val)
        /\ JsonDumps(outcome.value) = text
C3_Witness ==
    /\ Succeeded
    /\ IsDict(outcome.value)
    /\ KeySet(outcome.value) = {"error", "details"}

\* C4 as claimed: every continuation_token that is a string, the empty one
\* included, is in the body sent under continuationToken.
C4_AnyStringTokenSent ==
    (sent # <<>> /\ IsStr(kwargs.continuation_token)) =>
        /\ HasKey(SentBody, "continuationToken")
        /\ Get(SentBody, "continuationToken") = kwargs.continuation_token

\* C4 as amended: a non-empty continuation_token is in the body sent under
\* continuationToken with the value given; the empty string is left out of
\* the body as None is.
C4_NonEmptyTokenSent ==
    (sent # <<>> /\ IsStr(kwargs.continuation_token)) =>
        IF kwargs.continuation_token.s # ""
        THEN /\ HasKey(SentBody, "continuationToken")
             /\ Get(SentBody, "continuationToken") = kwargs.continuation_token
        ELSE ~HasKey(SentBody, "continuationToken")
C4_Witness ==
    /\ sent # <<>>
    /\ kwargs.continuation_token = PyStr("abc123")
    /\ Get(SentBody, "continuationToken") = PyStr("abc123")

\* C5: with a (non-empty) credential configured the call sends a body with
\* token = the credential, queryType = "log", and filter, startTime, endTime,
\* maxCount and columns as the caller gave them, out-of-range max_count
\* included; what the caller left out is "4h", "0h", 100 and ""; with no
\* continuation token given the body has no continuationToken key.
C5_BodyForwardsArguments ==
    /\ (pc = "done" /\ CredentialConfigured) => sent # <<>>
    /\ sent # <<>> =>
         LET b == SentBody
             given(v, d) == IF v = Unspecified THEN d ELSE v IN
         /\ IsDict(b)
         /\ {"token", "queryType", "filter", "startTime", "endTime",
             "maxCount", "columns"} \subseteq KeySet(b)
         /\ KeySet(b) \subseteq {"token", "queryType", "filter", "startTime",
                                 "endTime", "maxCount", "columns",
                                 "continuationToken"}
         /\ CredentialConfigured
         /\ Get(b, "token") = PyStr(Credential)
         /\ Get(b, "queryType") = PyStr("log")
         /\ Get(b, "filter") = kwargs.filter
         /\ Get(b, "startTime") = given(kwargs.start_time, PyStr("4h"))
         /\ Get(b, "endTime") = given(kwargs.end_time, PyStr("0h"))
         /\ Get(b, "maxCount") = given(kwargs.max_count, PyInt(100))
         /\ Get(b, "columns") = given(kwargs.columns, PyStr(""))
         /\ kwargs.continuation_token \in {Unspecified, None} =>
              ~HasKey(b, "continuationToken")
C5_Witness ==
    /\ sent # <<>>
    /\ kwargs.max_count = PyInt(5001)
    /\ kwargs.start_time = Unspecified
    /\ kwargs.columns = Unspecified
    /\ kwargs.continuation_token = Unspecified
    /\ kwargs.filter = PyStr("msg = \"a\\b\"")

\* C6: after a non-2xx answer the call returns exactly the keys error and
\* details, error being "HTTP <code>: <reason>" and details the error body
\* parsed as JSON, or its text when it is not JSON.
C6_HTTPErrorResult ==
    AnsweredHTTPError =>
        /\ outcome.kind = "return"
        /\ IsDict(outcome.value)
        /\ KeySet(outcome.value) = {"error", "details"}
        /\ Get(outcome.value, "error") =
               PyStr("HTTP " \o ToString(net.exc.code) \o ": " \o net.exc.msg)
        /\ (net.exc.fp.present /\ net.exc.fp.readErr = ""
              /\ Utf8Decode(net.exc.fp.data).ok) =>
             LET text == Utf8Decode(net.exc.fp.data).text IN
             Get(outcome.value, "details") =
                 IF JsonLoads(text).ok THEN JsonLoads(text).val ELSE PyStr(text)

\* C7: after a URLError that is not an HTTP answer the call returns the one
\* key error, "URL Error: <reason>", and no details.
C7_URLErrorResult ==
    TransportFailed => outcome = ErrorOnly("URL Error: " \o net.exc.reason)
C7_Witness ==
    /\ TransportFailed
    /\ outcome = ErrorOnly("URL Error: Network unreachable")

\* C8: a failure that is neither an HTTP error answer nor a transport error,
\* a 2xx body that is not JSON among them, yields the one key error,
\* "Unexpected error: <message of the exception>", and no details.
C8_UnexpectedErrorResult ==
    /\ FailedOtherwise => outcome = ErrorOnly("Unexpected error: " \o exc.msg)
    /\ (FailedOtherwise /\ net.kind = "raise") => exc = net.exc
    /\ (FailedOtherwise /\ net.kind = "response"
          /\ net.response.data = Utf8Encode("<html>Bad Gateway</html>")) =>
         outcome = ErrorOnly("Unexpected error: Expecting value: line 1 column 1 (char 0)")
C8_Witness ==
    /\ FailedOtherwise
    /\ net.kind = "response"
    /\ net.response.data = Utf8Encode("<html>Bad Gateway</html>")

\* C9: a call sends at most one request: one when a (non-empty) credential
\* is configured, none when it is not; the request is a POST to
\* https://app.scalyr.com/api/query with Content-Type: application/json; and
\* once the request has failed the call ends without sending another.
C9_RequestShape ==
    /\ Len(sent) <= 1
    /\ \A i \in 1..Len(sent) :
         /\ sent[i].url = "https://app.scalyr.com/api/query"
         /\ sent[i].method = "POST"
         /\ sent[i].headers = {<<"Content-Type", "application/json">>}
    /\ pc = "done" => Len(sent) = (IF CredentialConfigured THEN 1 ELSE 0)
    /\ pc \in {"read", "except"} => Len(sent) = 1
\* C9, in every state and step of a call: the shape above, and from the
\* except clauses the call goes to its end with the requests unchanged.
C9_OneRequest ==
    /\ []C9_RequestShape
    /\ [][pc = "except" => (pc' = "done" /\ sent' = sent)]_vars
C9_Witness ==
    /\ pc = "done"
    /\ Len(sent) = 1
    /\ outcome.kind = "return"
    /\ net.kind = "raise"

\* C10: the value a successful call returns is a mapping, whatever JSON
\* value the body of the answer is.
C10_SuccessIsMapping ==
    Succeeded => IsDict(outcome.value)
====
